---- MODULE Spec2Model ----
(***************************************************************************)
(* Model of src/index.ts: the Claude Code changelog monitor.               *)
(*                                                                         *)
(* A check invocation (checkChangelog) fetches the changelog document,     *)
(* parses it into version entries, compares the newest one with the        *)
(* checkpoint kept in KV under KV_KEY, sends one notification round per    *)
(* new entry (oldest first) to the configured platforms and, when every    *)
(* round succeeded, stores the newest version as the new checkpoint.       *)
(*                                                                         *)
(* Versions are modelled as the integers 1..MaxVer (string equality of     *)
(* versions is equality of the integers); the absent KV value (null) is 0. *)
(* A document is a sequence of lines; a line either matches the heading    *)
(* regex of parseChangelog (kind "heading") or it does not (kind "text").  *)
(*                                                                         *)
(* Every await of the code is one step: the changelog fetch, KV.get,       *)
(* KV.put, the settling of each platform's send and of Promise.all. A      *)
(* network call (fetch) may return ok, return non-ok, or throw; nothing in *)
(* the code catches, so a throw ends checkChangelog with the exception.    *)
(* KV is the durable map the program takes it for: get returns the value   *)
(* last put, put stores it.                                                *)
(***************************************************************************)
EXTENDS Integers, Sequences, FiniteSets, TLC

\* ------------------------------------------------------------- bounds
\* Number of versions the changelog source ever publishes.
MaxVer == 3
\* Number of versions the document may already hold before the first check.
MaxInitVer == 2
\* Longest entry list given to getNewVersions on its own.
MaxEntries == 3
\* Longest message given to truncateMessage on its own; the limits go one
\* further.
MaxMsgLen == 5
\* Longest document given to parseChangelog on its own.
MaxLines == 4
\* Most platforms configured where two invocations overlap.
MaxOverlapPlatforms == 1

\* ---------------------------------------------------------- constants
\* KV.get(KV_KEY) resolves to null when the key is absent.
Null == 0

Platforms == {"Telegram", "Discord", "Slack"}

\* The check invocations that may exist; Serial are those the timer uses
\* when it never overlaps two checks.
Procs == {1, 2}
Serial == {1}

Versions == 1..MaxVer

\* -------------------------------------------------------------- lines
Heading(v) == [kind |-> "heading", version |-> v, text |-> "##"]
TextLine(t) == [kind |-> "text", version |-> Null, text |-> t]
Title == TextLine("# Changelog")
Blank == TextLine("")
Item == TextLine("- change")

\* The section the source publishes for version v.
Section(v) == <<Heading(v), Blank, Item, Blank>>

\* line.match(/^## (\d+\.\d+(?:\.\d+)?(?:-[\w.]+)?)/)
VersionMatch(line) == line.kind = "heading"

\* ------------------------------------------------------ pure functions
RECURSIVE TrimStart(_)
TrimStart(content) ==
    IF content # <<>> /\ Head(content) = Blank
    THEN TrimStart(Tail(content))
    ELSE content

RECURSIVE TrimEnd(_)
TrimEnd(content) ==
    IF content # <<>> /\ content[Len(content)] = Blank
    THEN TrimEnd(SubSeq(content, 1, Len(content) - 1))
    ELSE content

\* currentContent.join('\n').trim(): whitespace-only lines at both ends go.
Trim(content) == TrimEnd(TrimStart(content))

\* Mutant of PushOpen: the test for an open version is missing.
PushOpenAlways(parsed, currentVersion, currentContent) ==
    Append(parsed, [version |-> currentVersion, content |-> Trim(currentContent)])

\* entries.push({version: currentVersion, content: ...trim()}) when a
\* version is open (currentVersion is truthy), else entries unchanged.
PushOpen(parsed, currentVersion, currentContent) ==
    IF currentVersion # Null
    THEN Append(parsed, [version |-> currentVersion, content |-> Trim(currentContent)])
    ELSE parsed

\* The loop of parseChangelog from line i on, and the final push.
RECURSIVE ParseFrom(_, _, _, _, _)
ParseFrom(lines, i, currentVersion, currentContent, parsed) ==
    IF i > Len(lines)
    THEN PushOpen(parsed, currentVersion, currentContent)
    ELSE IF VersionMatch(lines[i])
         THEN ParseFrom(lines, i + 1, lines[i].version, <<>>,
                        PushOpen(parsed, currentVersion, currentContent))
         ELSE IF currentVersion # Null
              THEN ParseFrom(lines, i + 1, currentVersion,
                             Append(currentContent, lines[i]), parsed)
              ELSE ParseFrom(lines, i + 1, currentVersion, currentContent, parsed)

parseChangelog(markdown) == ParseFrom(markdown, 1, Null, <<>>, <<>>)

\* Mutant of FindIndex: the last occurrence is taken (findLastIndex).
FindIndexLast(list, lastSeenVersion) ==
    IF \E i \in 1..Len(list) : list[i].version = lastSeenVersion
    THEN (CHOOSE i \in 1..Len(list) :
            /\ list[i].version = lastSeenVersion
            /\ \A j \in (i + 1)..Len(list) : list[j].version # lastSeenVersion) - 1
    ELSE -1

\* entries.findIndex(e => e.version === lastSeenVersion), 0-based, -1 if none.
FindIndex(list, lastSeenVersion) ==
    IF \E i \in 1..Len(list) : list[i].version = lastSeenVersion
    THEN (CHOOSE i \in 1..Len(list) :
            /\ list[i].version = lastSeenVersion
            /\ \A j \in 1..(i - 1) : list[j].version # lastSeenVersion) - 1
    ELSE -1

\* Mutant of getNewVersions: an unknown checkpoint selects the whole history.
getNewVersionsAllWhenUnknown(list, lastSeenVersion) ==
    IF FindIndex(list, lastSeenVersion) = -1
    THEN list
    ELSE SubSeq(list, 1, FindIndex(list, lastSeenVersion))

\* Mutant of getNewVersions: the slice stops one entry early.
getNewVersionsSkipOne(list, lastSeenVersion) ==
    IF FindIndex(list, lastSeenVersion) = -1
    THEN <<>>
    ELSE SubSeq(list, 1, FindIndex(list, lastSeenVersion) - 1)

getNewVersions(list, lastSeenVersion) ==
    IF FindIndex(list, lastSeenVersion) = -1
    THEN <<>>
    ELSE SubSeq(list, 1, FindIndex(list, lastSeenVersion))

\* message.slice(0, end): a negative end counts from the end of the string,
\* an end past the string is the string's length.
Slice(message, end) ==
    LET stop == IF end < 0
                THEN (IF Len(message) + end < 0 THEN 0 ELSE Len(message) + end)
                ELSE (IF end > Len(message) THEN Len(message) ELSE end)
    IN SubSeq(message, 1, stop)

\* '\n...'
Ellipsis == <<"\n", ".", ".", ".">>

truncateMessage(message, maxLength) ==
    IF Len(message) <= maxLength
    THEN message
    ELSE Slice(message, maxLength - 4) \o Ellipsis

\* Mutant of Reverse: the order is kept.
ReverseKept(s) == s

\* [...newVersions].reverse()
Reverse(s) == [i \in 1..Len(s) |-> s[Len(s) + 1 - i]]

\* formatVersionMessage: the header carries the version, then the content.
formatVersionMessage(entry) == [header |-> entry.version, body |-> entry.content]

\* Mutant of LatestVersion: a version the document does not hold.
LatestVersionUnpublished(list) == list[1].version + 1

\* Mutant of LatestVersion: the oldest entry is taken for the newest.
LatestVersionOldest(list) == list[Len(list)].version

\* const latestVersion = entries[0].version
LatestVersion(list) == list[1].version

\* if (!lastSeenVersion)
FirstRun(lastSeenVersion) == lastSeenVersion = Null

\* Mutant of NoNewUpdates: the early exit on an unchanged head is missing.
NoNewUpdatesNever(latestVersion, lastSeenVersion) == FALSE

\* if (latestVersion === lastSeenVersion)
NoNewUpdates(latestVersion, lastSeenVersion) == latestVersion = lastSeenVersion

\* The platforms sendNotifications pushes a promise for.
Configured(e) ==
    {pl \in Platforms :
        \/ pl = "Telegram" /\ e.TELEGRAM_BOT_TOKEN /\ e.TELEGRAM_CHAT_ID
        \/ pl = "Discord" /\ e.DISCORD_WEBHOOK_URL
        \/ pl = "Slack" /\ e.SLACK_WEBHOOK_URL}

\* results.filter(r => r.success).length
SuccessCount(results) == Cardinality({pl \in Platforms : results[pl] = "ok"})

\* results.filter(r => !r.success).map(r => r.platform)
FailedPlatforms(results) == {pl \in Platforms : results[pl] = "failed"}

\* Mutant of RoundSuccess: every platform must have succeeded.
RoundSuccessAll(results) == FailedPlatforms(results) = {}

\* Mutant of RoundSuccess: the round is reported successful whatever happened.
RoundSuccessAlways(results) == TRUE

\* return successCount > 0
RoundSuccess(results) == SuccessCount(results) > 0

\* Mutant of TrackSuccess: the result of the round is not looked at.
TrackSuccessIgnored(allSucceeded, success) == allSucceeded

\* Mutant of TrackSuccess: only the last round decides.
TrackSuccessLast(allSucceeded, success) == success

\* if (!success) allSucceeded = false
TrackSuccess(allSucceeded, success) == IF ~success THEN FALSE ELSE allSucceeded

\* ---------------------------------------------------------------- state
VARIABLES
    doc,        \* the lines served at CHANGELOG_URL
    published,  \* the newest version the source has published so far
    KV,         \* the value stored under KV_KEY (Null when absent)
    env,        \* which secrets of Env are set
    run,        \* per check invocation: position and locals of checkChangelog
    previous,   \* what the last settled invocation did, where it is remembered
    call        \* one call of a pure function: its arguments and its result

vars == <<doc, published, KV, env, run, previous, call>>

\* The document holding the versions hi, hi-1, .., lo under the title.
RECURSIVE Sections(_, _)
Sections(hi, lo) == IF hi < lo THEN <<>> ELSE Section(hi) \o Sections(hi - 1, lo)

Document(hi, lo) == <<Title, Blank>> \o Sections(hi, lo)

NoPromises == [pl \in Platforms |-> "none"]

\* An invocation that has not started.
Idle ==
    [pc |-> "idle", trigger |-> "none", reply |-> "none",
     checkpointAtStart |-> Null, fetched |-> "none",
     entries |-> <<>>, latestVersion |-> Null,
     read |-> FALSE, lastSeenVersion |-> Null,
     newVersions |-> <<>>, queue |-> <<>>, allSucceeded |-> TRUE,
     promises |-> NoPromises, rounds |-> <<>>, puts |-> <<>>]

EnvValues ==
    [TELEGRAM_BOT_TOKEN : BOOLEAN, TELEGRAM_CHAT_ID : BOOLEAN,
     DISCORD_WEBHOOK_URL : BOOLEAN, SLACK_WEBHOOK_URL : BOOLEAN]

\* No invocation has settled yet, or none is remembered.
NoPrevious == [known |-> FALSE]

\* No pure function is being called.
NoCall == [fn |-> "none"]

Init ==
    /\ published \in 0..MaxInitVer
    /\ doc = Document(published, 1)
    /\ KV = Null
    /\ env \in EnvValues
    /\ run = [p \in Procs |-> Idle]
    /\ previous = NoPrevious
    /\ call = NoCall

\* ---------------------------------------------------------- environment
\* The document is read by the fetch of checkChangelog and by nothing else:
\* a change made at any other moment is seen exactly as the same change made
\* while the next fetch is outstanding, so the source's changes are taken
\* there.
FetchOutstanding == \E p \in Procs : run[p].pc = "fetching"

\* The source publishes the next version: its section goes on top, under
\* the title.
PublishVersion ==
    /\ FetchOutstanding
    /\ published < MaxVer
    /\ published' = published + 1
    /\ doc' = <<Title, Blank>> \o Section(published + 1) \o SubSeq(doc, 3, Len(doc))
    /\ UNCHANGED <<KV, env, run, previous, call>>

\* The source rewrites the document: some of the published versions stay,
\* possibly none.
RewriteDocument ==
    /\ FetchOutstanding
    /\ \E hi \in 0..published, lo \in 1..published :
        /\ hi >= lo \/ hi = 0
        /\ doc' = Document(hi, lo)
        /\ doc' # doc
    /\ UNCHANGED <<published, KV, env, run, previous, call>>

\* -------------------------------------------------------------- handlers
\* No other invocation is between its start and its end.
NoOverlap(p) == \A q \in Procs \ {p} : run[q].pc = "idle"

\* fetch(req, env) with pathname "/check": await checkChangelog(env).
FetchCheck(p) ==
    /\ run[p].pc = "idle"
    /\ NoOverlap(p)
    /\ run' = [run EXCEPT ![p] = [Idle EXCEPT !.pc = "fetching", !.trigger = "manual",
                                               !.checkpointAtStart = KV]]
    /\ UNCHANGED <<doc, published, KV, env, previous, call>>

\* fetch(req, env) with any other pathname: the usage text, no check.
FetchUsage(p) ==
    /\ run[p].pc = "idle"
    /\ NoOverlap(p)
    /\ run[p] # [Idle EXCEPT !.reply = "usage"]
    /\ run' = [run EXCEPT ![p] = [Idle EXCEPT !.reply = "usage"]]
    /\ UNCHANGED <<doc, published, KV, env, previous, call>>

\* scheduled(event, env, ctx): ctx.waitUntil(checkChangelog(env)).
Scheduled(p) ==
    /\ run[p].pc = "idle"
    /\ NoOverlap(p)
    /\ run' = [run EXCEPT ![p] = [Idle EXCEPT !.pc = "fetching", !.trigger = "scheduled",
                                               !.checkpointAtStart = KV]]
    /\ UNCHANGED <<doc, published, KV, env, previous, call>>

\* What the caller of the handler gets once checkChangelog has settled: the
\* manual trigger answers 'Changelog check completed' when the awaited
\* promise resolved and fails with the exception when it rejected; the
\* scheduled handler has nothing to answer.
Reply(trigger, pc) ==
    IF trigger = "manual"
    THEN IF pc = "returned" THEN "completed" ELSE "error"
    ELSE "none"

Settled(p) ==
    /\ run[p].pc \in {"returned", "threw"}
    /\ run' = [run EXCEPT ![p] = [Idle EXCEPT !.trigger = run[p].trigger,
                                               !.reply = Reply(run[p].trigger, run[p].pc)]]
    /\ UNCHANGED <<doc, published, KV, env, previous, call>>

\* -------------------------------------------------------- checkChangelog
\* const response = await fetch(CHANGELOG_URL), up to the KV read: the
\* transport may throw, the response may be non-ok, the document may hold
\* no entry.
FetchChangelog(p) ==
    /\ run[p].pc = "fetching"
    /\ \E outcome \in {"ok", "notok", "threw"} :
        LET parsed == parseChangelog(doc) IN
        run' = [run EXCEPT ![p] =
            IF outcome = "threw"
            THEN [@ EXCEPT !.fetched = outcome, !.pc = "threw"]
            ELSE IF outcome = "notok"
            THEN [@ EXCEPT !.fetched = outcome, !.pc = "returned"]
            ELSE IF Len(parsed) = 0
            THEN [@ EXCEPT !.fetched = outcome, !.entries = parsed, !.pc = "returned"]
            ELSE [@ EXCEPT !.fetched = outcome, !.entries = parsed,
                           !.latestVersion = LatestVersion(parsed),
                           !.pc = "kv_get"]]
    /\ UNCHANGED <<doc, published, KV, env, previous, call>>

\* const lastSeenVersion = await env.KV.get(KV_KEY) and the branches that
\* follow it, up to the next await.
KVGet(p) ==
    /\ run[p].pc = "kv_get"
    /\ LET r == [run[p] EXCEPT !.read = TRUE, !.lastSeenVersion = KV]
           new == getNewVersions(r.entries, KV)
       IN run' = [run EXCEPT ![p] =
            IF FirstRun(KV)
            THEN [r EXCEPT !.pc = "kv_put"]
            ELSE IF NoNewUpdates(r.latestVersion, KV)
            THEN [r EXCEPT !.pc = "returned"]
            ELSE IF Len(new) = 0
            THEN [r EXCEPT !.pc = "kv_put"]
            ELSE [r EXCEPT !.newVersions = new, !.queue = Reverse(new),
                           !.allSucceeded = TRUE, !.pc = "notify"]]
    /\ UNCHANGED <<doc, published, KV, env, previous, call>>

\* Mutant of KVPut: the version that was read is written back.
KVPutLastSeen(p) ==
    /\ run[p].pc = "kv_put"
    /\ KV' = run[p].lastSeenVersion
    /\ run' = [run EXCEPT ![p].puts = Append(@, run[p].lastSeenVersion),
                          ![p].pc = "returned"]
    /\ UNCHANGED <<doc, published, env, previous, call>>

\* await env.KV.put(KV_KEY, latestVersion), then return.
KVPut(p) ==
    /\ run[p].pc = "kv_put"
    /\ KV' = run[p].latestVersion
    /\ run' = [run EXCEPT ![p].puts = Append(@, run[p].latestVersion),
                          ![p].pc = "returned"]
    /\ UNCHANGED <<doc, published, env, previous, call>>

\* The invocation after sendNotifications returned `success` for the head of
\* the queue: the next iteration of the loop, or the decision after it.
AfterRound(r, results, success) ==
    LET all == TrackSuccess(r.allSucceeded, success)
        rest == Tail(r.queue)
    IN [r EXCEPT !.rounds = Append(@, [version |-> formatVersionMessage(Head(r.queue)).header,
                                       successCount |-> SuccessCount(results),
                                       failedCount |-> Cardinality(FailedPlatforms(results)),
                                       ret |-> IF success THEN "true" ELSE "false"]),
                 !.queue = rest,
                 !.allSucceeded = all,
                 !.promises = NoPromises,
                 !.pc = IF rest # <<>> THEN "notify"
                        ELSE IF all THEN "kv_put" ELSE "returned"]

\* sendNotifications(message, env) up to its await: every configured
\* platform's send is started; with none configured it returns false.
SendNotifications(p) ==
    /\ run[p].pc = "notify"
    /\ run' = [run EXCEPT ![p] =
            IF Configured(env) = {}
            THEN AfterRound(@, NoPromises, FALSE)
            ELSE [@ EXCEPT !.promises = [pl \in Platforms |->
                                IF pl \in Configured(env) THEN "pending" ELSE "none"],
                           !.pc = "awaiting"]]
    /\ UNCHANGED <<doc, published, KV, env, previous, call>>

\* One platform's send settles: response.ok, a non-ok response, or the
\* transport throws (sendTelegram, sendDiscord, sendSlack catch nothing).
SendSettles(p, pl) ==
    /\ run[p].promises[pl] = "pending"
    /\ \E outcome \in {"ok", "failed", "threw"} :
        run' = [run EXCEPT ![p].promises[pl] = outcome]
    /\ UNCHANGED <<doc, published, KV, env, previous, call>>

\* await Promise.all(promises) resolves: every send returned its result.
PromiseAllResolves(p) ==
    /\ run[p].pc = "awaiting"
    /\ \A pl \in Platforms : run[p].promises[pl] \in {"none", "ok", "failed"}
    /\ run' = [run EXCEPT ![p] =
            AfterRound(@, run[p].promises, RoundSuccess(run[p].promises))]
    /\ UNCHANGED <<doc, published, KV, env, previous, call>>

\* await Promise.all(promises) rejects as soon as one send has thrown; the
\* exception leaves sendNotifications and checkChangelog uncaught, the other
\* sends stay in flight.
PromiseAllRejects(p) ==
    /\ run[p].pc = "awaiting"
    /\ \E pl \in Platforms : run[p].promises[pl] = "threw"
    /\ run' = [run EXCEPT ![p].rounds =
                    Append(@, [version |-> formatVersionMessage(Head(run[p].queue)).header,
                               successCount |-> SuccessCount(run[p].promises),
                               failedCount |-> Cardinality(FailedPlatforms(run[p].promises)),
                               ret |-> "rejected"]),
                          ![p].pc = "threw"]
    /\ UNCHANGED <<doc, published, KV, env, previous, call>>

Step(p) ==
    \/ FetchCheck(p)
    \/ FetchUsage(p)
    \/ Scheduled(p)
    \/ Settled(p)
    \/ FetchChangelog(p)
    \/ KVGet(p)
    \/ KVPut(p)
    \/ SendNotifications(p)
    \/ \E pl \in Platforms : SendSettles(p, pl)
    \/ PromiseAllResolves(p)
    \/ PromiseAllRejects(p)

Next ==
    \/ PublishVersion
    \/ RewriteDocument
    \/ \E p \in Serial : Step(p)

Spec == Init /\ [][Next]_vars

\* The source only ever prepends new versions to the document.
NextPrepend ==
    \/ PublishVersion
    \/ \E p \in Serial : Step(p)

SpecPrepend == Init /\ [][NextPrepend]_vars

\* --------------------------------------------------------------- claims
\* checkChangelog has resolved or rejected and its handler has not yet
\* answered: the locals of the invocation are final.
Ended(p) == run[p].pc \in {"returned", "threw"}

\* The versions of the rounds the invocation has dispatched, in order.
RoundVersions(p) == [i \in 1..Len(run[p].rounds) |-> run[p].rounds[i].version]

\* Every round of the batch was dispatched and returned true.
EveryRoundSucceeded(p) ==
    /\ Len(run[p].rounds) = Len(run[p].newVersions)
    /\ \A i \in 1..Len(run[p].rounds) : run[p].rounds[i].ret = "true"

\* The invocation has read the checkpoint and it names no parsed entry.
Stale(p) ==
    /\ run[p].read
    /\ run[p].lastSeenVersion # Null
    /\ \A i \in 1..Len(run[p].entries) :
        run[p].entries[i].version # run[p].lastSeenVersion

\* C1: in an invocation whose delta is non-empty the checkpoint is written,
\* once and to the newest parsed version, exactly when every round of the
\* batch returned success; as soon as one round has not returned success the
\* invocation holds no checkpoint write, and none follows.
C1_CheckpointIffAllRounds ==
    \A p \in Procs :
        Len(run[p].newVersions) > 0 =>
            /\ run[p].puts \in {<<>>, <<run[p].entries[1].version>>}
            /\ (\E i \in 1..Len(run[p].rounds) : run[p].rounds[i].ret # "true")
                    => run[p].puts = <<>> /\ run[p].pc # "kv_put"
            /\ Ended(p) => (run[p].puts # <<>> <=> EveryRoundSucceeded(p))
            /\ run[p].puts # <<>> => KV = run[p].entries[1].version

\* C1 witness: a batch of two rounds whose first round succeeded and whose
\* second failed has ended without a write, the checkpoint where it was.
C1_Witness ==
    \E p \in Procs :
        /\ run[p].pc = "returned"
        /\ Len(run[p].newVersions) = 2
        /\ Len(run[p].rounds) = 2
        /\ run[p].rounds[1].ret = "true"
        /\ run[p].rounds[2].ret = "false"
        /\ run[p].puts = <<>>
        /\ KV = run[p].checkpointAtStart

\* C2 (as claimed): an invocation that dispatched notifications and wrote
\* the checkpoint had every configured platform report success in every
\* round.
C2_AllPlatformsBeforeCheckpoint ==
    \A p \in Procs :
        (run[p].rounds # <<>> /\ run[p].puts # <<>>) =>
            \A i \in 1..Len(run[p].rounds) :
                /\ run[p].rounds[i].failedCount = 0
                /\ run[p].rounds[i].successCount = Cardinality(Configured(env))

\* C2 (amended): an invocation that dispatched notifications and wrote the
\* checkpoint had, in every round, every send return a result and at least
\* one configured platform report success.
C2_SomePlatformBeforeCheckpoint ==
    \A p \in Procs :
        (run[p].rounds # <<>> /\ run[p].puts # <<>>) =>
            \A i \in 1..Len(run[p].rounds) :
                /\ run[p].rounds[i].ret = "true"
                /\ run[p].rounds[i].successCount >= 1
                /\ run[p].rounds[i].successCount + run[p].rounds[i].failedCount
                        = Cardinality(Configured(env))

\* C2 witness: the checkpoint was written after a round in which one
\* platform succeeded and another failed.
C2_Witness ==
    \E p \in Procs :
        /\ run[p].puts # <<>>
        /\ \E i \in 1..Len(run[p].rounds) :
            /\ run[p].rounds[i].successCount >= 1
            /\ run[p].rounds[i].failedCount >= 1

\* C3: an invocation that read an absent checkpoint (the parsed document
\* then holds at least one entry) starts no send and dispatches no round,
\* and it ends with one write, of the first entry's version, which is the
\* checkpoint from then on.
C3_FirstRunBaseline ==
    \A p \in Procs :
        (run[p].read /\ run[p].lastSeenVersion = Null) =>
            /\ Len(run[p].entries) >= 1
            /\ run[p].rounds = <<>>
            /\ run[p].promises = NoPromises
            /\ run[p].pc \in {"kv_put", "returned"}
            /\ Ended(p) =>
                /\ run[p].puts = <<run[p].entries[1].version>>
                /\ KV = run[p].entries[1].version

\* C3 witness: a first run over a document of two entries has ended.
C3_Witness ==
    \E p \in Procs :
        /\ Ended(p)
        /\ run[p].read
        /\ run[p].lastSeenVersion = Null
        /\ Len(run[p].entries) >= 2
        /\ KV = run[p].entries[1].version

\* C4: an invocation that read a non-empty checkpoint equal to no version of
\* the parsed document starts no send and dispatches no round, and it ends
\* with one write, of the first entry's version, which replaces the
\* checkpoint.
C4_StaleCheckpointResync ==
    \A p \in Procs :
        Stale(p) =>
            /\ run[p].rounds = <<>>
            /\ run[p].promises = NoPromises
            /\ run[p].pc \in {"kv_put", "returned"}
            /\ Ended(p) =>
                /\ run[p].puts = <<run[p].entries[1].version>>
                /\ KV = run[p].entries[1].version

\* C4 witness: an invocation found its checkpoint in none of two parsed
\* entries and has ended, the checkpoint now the first entry's version.
C4_Witness ==
    \E p \in Procs :
        /\ Ended(p)
        /\ Stale(p)
        /\ Len(run[p].entries) >= 2
        /\ KV = run[p].entries[1].version
        /\ KV # run[p].checkpointAtStart

\* The versions of the parsed entries in front of the checkpoint's first
\* occurrence, oldest first; empty when the checkpoint names no entry.
NewerOldestFirst(p) ==
    LET k == FindIndex(run[p].entries, run[p].lastSeenVersion)
    IN IF k < 1 THEN <<>>
       ELSE [i \in 1..k |-> run[p].entries[k + 1 - i].version]

\* s is an initial part of t.
IsPrefix(s, t) == Len(s) <= Len(t) /\ \A i \in 1..Len(s) : s[i] = t[i]

\* C5: the rounds of an invocation that read a checkpoint are dispatched for
\* exactly the entries newer than the checkpoint, oldest first: what has been
\* dispatched so far is an initial part of that list, and when the invocation
\* has ended every entry of the list has had its round.
C5_RoundsExactlyNewOldestFirst ==
    \A p \in Procs :
        (run[p].read /\ run[p].lastSeenVersion # Null) =>
            /\ IsPrefix(RoundVersions(p), NewerOldestFirst(p))
            /\ Ended(p) => RoundVersions(p) = NewerOldestFirst(p)

\* The part of C5 the code keeps: the rounds dispatched so far are an initial
\* part of the new entries' versions oldest first, and an invocation that
\* returns has dispatched all of them.
C5_OrderKept ==
    \A p \in Procs :
        (run[p].read /\ run[p].lastSeenVersion # Null) =>
            /\ IsPrefix(RoundVersions(p), NewerOldestFirst(p))
            /\ run[p].pc = "returned" => RoundVersions(p) = NewerOldestFirst(p)

\* C6: with serial checks and a document that only grows at its head, an
\* invocation that started from a stored checkpoint and wrote a new one had,
\* for every version after the old checkpoint up to the new one, a round for
\* that version in which at least one platform succeeded.
C6_NoMissedUpdate ==
    \A p \in Procs :
        (run[p].puts # <<>> /\ run[p].checkpointAtStart # Null) =>
            \A v \in Versions :
                (run[p].checkpointAtStart < v /\ v <= KV) =>
                    \E i \in 1..Len(run[p].rounds) :
                        /\ run[p].rounds[i].version = v
                        /\ run[p].rounds[i].successCount >= 1

\* C6 witness: one invocation moved the checkpoint over two versions, each
\* with its round.
C6_Witness ==
    \E p \in Procs :
        /\ run[p].puts # <<>>
        /\ run[p].checkpointAtStart # Null
        /\ KV = run[p].checkpointAtStart + 2
        /\ Len(run[p].rounds) = 2

\* C7: the manual trigger never answers anything but the completion
\* acknowledgment.
C7_ManualTriggerAlwaysCompletes ==
    \A p \in Procs :
        run[p].trigger = "manual" => run[p].reply \in {"none", "completed"}

\* C8: no round is aborted by a platform: every dispatched round returns true
\* or false, false only when no platform succeeded, and an invocation whose
\* changelog fetch succeeded is not ended by an exception.
C8_PlatformFailureIsolated ==
    \A p \in Procs :
        /\ \A i \in 1..Len(run[p].rounds) :
            /\ run[p].rounds[i].ret \in {"true", "false"}
            /\ run[p].rounds[i].ret = "false" => run[p].rounds[i].successCount = 0
        /\ run[p].fetched = "ok" => run[p].pc # "threw"

\* C9: sends are started for the configured platforms and for no other; a
\* round in which every send returned a result returned true exactly when at
\* least one of them was a success; with no platform configured every round
\* returns false, no send is started and nothing is thrown.
C9_DispatchResult ==
    \A p \in Procs :
        /\ \A pl \in Platforms : run[p].promises[pl] # "none" => pl \in Configured(env)
        /\ run[p].pc = "awaiting" =>
            {pl \in Platforms : run[p].promises[pl] # "none"} = Configured(env)
        /\ \A i \in 1..Len(run[p].rounds) :
            run[p].rounds[i].ret # "rejected" =>
                /\ run[p].rounds[i].ret = "true" <=> run[p].rounds[i].successCount > 0
                /\ run[p].rounds[i].successCount + run[p].rounds[i].failedCount
                        = Cardinality(Configured(env))
        /\ Configured(env) = {} =>
            /\ \A i \in 1..Len(run[p].rounds) : run[p].rounds[i].ret = "false"
            /\ run[p].pc # "awaiting"
            /\ run[p].fetched = "ok" => run[p].pc # "threw"

\* C9 witness: with two platforms configured, a round in which one succeeded
\* and the other failed returned true.
C9_Witness ==
    \E p \in Procs :
        /\ Cardinality(Configured(env)) = 2
        /\ \E i \in 1..Len(run[p].rounds) :
            /\ run[p].rounds[i].successCount = 1
            /\ run[p].rounds[i].failedCount = 1
            /\ run[p].rounds[i].ret = "true"

\* The invocation ended at one of the early exits: the fetch failed, the
\* document parsed to no entry, or the checkpoint is the newest version.
EarlyExit(p) ==
    \/ run[p].fetched \in {"notok", "threw"}
    \/ run[p].fetched = "ok" /\ run[p].entries = <<>>
    \/ run[p].read /\ run[p].lastSeenVersion = run[p].entries[1].version

\* C10: an invocation that ended at an early exit wrote no checkpoint,
\* dispatched no round, started no send, and the checkpoint is what it was
\* when the invocation started.
C10_EarlyExitNoEffect ==
    \A p \in Procs :
        (Ended(p) /\ EarlyExit(p)) =>
            /\ run[p].puts = <<>>
            /\ run[p].rounds = <<>>
            /\ run[p].promises = NoPromises
            /\ KV = run[p].checkpointAtStart

\* C10 witness: an invocation found the checkpoint equal to the newest of two
\* parsed entries and has ended.
C10_Witness ==
    \E p \in Procs :
        /\ Ended(p)
        /\ run[p].read
        /\ Len(run[p].entries) >= 2
        /\ run[p].lastSeenVersion = run[p].entries[1].version

\* ------------------------------------------------- pure functions alone
\* The sequences over S of length at most n.
SeqsUpTo(S, n) == UNION {[1..k -> S] : k \in 0..n}

\* The characters of the messages tried.
Chars == {"a", "b"}

\* The lines of the documents tried: headings of every version, a
\* whitespace-only line, a body line.
Lines == {Heading(v) : v \in Versions} \cup {Blank, Item}

GetNewVersionsCalls ==
    [fn : {"getNewVersions"},
     entries : SeqsUpTo([version : Versions, content : {<<>>}], MaxEntries),
     lastSeenVersion : Versions,
     done : {FALSE}, result : {<<>>}]

TruncateMessageCalls ==
    [fn : {"truncateMessage"},
     message : SeqsUpTo(Chars, MaxMsgLen),
     maxLength : 0..(MaxMsgLen + 1),
     done : {FALSE}, result : {<<>>}]

ParseChangelogCalls ==
    [fn : {"parseChangelog"},
     markdown : SeqsUpTo(Lines, MaxLines),
     done : {FALSE}, result : {<<>>}]

\* The worker is idle; one call of a pure function is about to be made.
InitPure ==
    /\ published = 0
    /\ doc = Document(0, 1)
    /\ KV = Null
    /\ env = [TELEGRAM_BOT_TOKEN |-> FALSE, TELEGRAM_CHAT_ID |-> FALSE,
              DISCORD_WEBHOOK_URL |-> FALSE, SLACK_WEBHOOK_URL |-> FALSE]
    /\ run = [p \in Procs |-> Idle]
    /\ previous = NoPrevious
    /\ call \in GetNewVersionsCalls \cup TruncateMessageCalls \cup ParseChangelogCalls

CallGetNewVersions ==
    /\ call.fn = "getNewVersions"
    /\ ~call.done
    /\ call' = [call EXCEPT !.done = TRUE,
                            !.result = getNewVersions(call.entries, call.lastSeenVersion)]
    /\ UNCHANGED <<doc, published, KV, env, run, previous>>

CallTruncateMessage ==
    /\ call.fn = "truncateMessage"
    /\ ~call.done
    /\ call' = [call EXCEPT !.done = TRUE,
                            !.result = truncateMessage(call.message, call.maxLength)]
    /\ UNCHANGED <<doc, published, KV, env, run, previous>>

CallParseChangelog ==
    /\ call.fn = "parseChangelog"
    /\ ~call.done
    /\ call' = [call EXCEPT !.done = TRUE,
                            !.result = parseChangelog(call.markdown)]
    /\ UNCHANGED <<doc, published, KV, env, run, previous>>

NextPure ==
    \/ CallGetNewVersions
    \/ CallTruncateMessage
    \/ CallParseChangelog

SpecPure == InitPure /\ [][NextPure]_vars

\* C11: getNewVersions(entries, v) is empty when v is the first entry's
\* version, empty when v is no entry's version, and the first k entries in
\* their order when the first entry of version v is the k-th (from 0).
C11_DeltaSelector ==
    (call.fn = "getNewVersions" /\ call.done) =>
        LET e == call.entries
            v == call.lastSeenVersion
            r == call.result
        IN /\ (e # <<>> /\ e[1].version = v) => r = <<>>
           /\ (\A i \in 1..Len(e) : e[i].version # v) => r = <<>>
           /\ \A k \in 0..(Len(e) - 1) :
                (e[k + 1].version = v /\ \A j \in 1..k : e[j].version # v) =>
                    /\ Len(r) = k
                    /\ \A i \in 1..k : r[i] = e[i]

\* C11 witness: the version asked for occurs twice, first as the second
\* entry, and the result is the one entry in front of it.
C11_Witness ==
    /\ call.fn = "getNewVersions"
    /\ call.done
    /\ Len(call.entries) = 3
    /\ call.entries[1].version # call.lastSeenVersion
    /\ call.entries[2].version = call.lastSeenVersion
    /\ call.entries[3].version = call.lastSeenVersion
    /\ call.result = <<call.entries[1]>>

\* C12: truncateMessage(s, L) is at most L long for every s and every
\* L >= 0, and is s when s is at most L long.
C12_TruncateWithinLimit ==
    (call.fn = "truncateMessage" /\ call.done) =>
        /\ Len(call.result) <= call.maxLength
        /\ Len(call.message) <= call.maxLength => call.result = call.message

\* The part of C12 the code keeps: the same with limits of at least 4, the
\* length of the ellipsis line.
C12_FromFour ==
    (call.fn = "truncateMessage" /\ call.done /\ call.maxLength >= 4) =>
        /\ Len(call.result) <= call.maxLength
        /\ Len(call.message) <= call.maxLength => call.result = call.message

\* The places of the heading lines of a document.
HeadingLines(lines) == {i \in 1..Len(lines) : lines[i].kind = "heading"}

\* The place of the n-th heading line, from 1.
NthHeading(lines, n) ==
    CHOOSE i \in HeadingLines(lines) :
        Cardinality({j \in HeadingLines(lines) : j <= i}) = n

\* The lines after the n-th heading up to the next heading or the end.
Between(lines, n) ==
    SubSeq(lines, NthHeading(lines, n) + 1,
           IF n < Cardinality(HeadingLines(lines))
           THEN NthHeading(lines, n + 1) - 1
           ELSE Len(lines))

\* body without the whitespace-only lines at its two ends.
WithoutOuterBlanks(body) ==
    LET full == {i \in 1..Len(body) : body[i] # Blank}
    IN IF full = {} THEN <<>>
       ELSE SubSeq(body, CHOOSE i \in full : \A j \in full : i <= j,
                         CHOOSE i \in full : \A j \in full : j <= i)

\* C13 (as claimed): parseChangelog yields one entry per heading line, in
\* document order, the n-th entry's body being the lines between the n-th
\* heading and the next heading or the end of input.
C13_ParseBodiesVerbatim ==
    (call.fn = "parseChangelog" /\ call.done) =>
        /\ Len(call.result) = Cardinality(HeadingLines(call.markdown))
        /\ \A n \in 1..Len(call.result) :
            /\ call.result[n].version = call.markdown[NthHeading(call.markdown, n)].version
            /\ call.result[n].content = Between(call.markdown, n)

\* C13 (amended): parseChangelog yields one entry per heading line, in
\* document order, the n-th entry's body being the lines between the n-th
\* heading and the next heading or the end of input without the
\* whitespace-only lines at the two ends; no line before the first heading
\* is in any entry and a document without heading yields no entry.
C13_ParseBodiesTrimmed ==
    (call.fn = "parseChangelog" /\ call.done) =>
        /\ Len(call.result) = Cardinality(HeadingLines(call.markdown))
        /\ \A n \in 1..Len(call.result) :
            /\ call.result[n].version = call.markdown[NthHeading(call.markdown, n)].version
            /\ call.result[n].content = WithoutOuterBlanks(Between(call.markdown, n))

\* C13 witness: a document with a line before its first heading and two
\* headings, the first with a body line, parsed to two entries.
C13_Witness ==
    /\ call.fn = "parseChangelog"
    /\ call.done
    /\ Len(call.markdown) >= 1
    /\ call.markdown[1].kind = "text"
    /\ Cardinality(HeadingLines(call.markdown)) = 2
    /\ Len(call.result) = 2
    /\ call.result[1].content = <<Item>>

\* ------------------------------------------- one invocation after another
\* checkChangelog settled, as Settled, and what the invocation read and did
\* is remembered for the invocation that follows it.
SettledRemembered(p) ==
    /\ run[p].pc \in {"returned", "threw"}
    /\ run' = [run EXCEPT ![p] = [Idle EXCEPT !.trigger = run[p].trigger,
                                               !.reply = Reply(run[p].trigger, run[p].pc)]]
    /\ previous' = [known |-> TRUE,
                    read |-> run[p].read,
                    entries |-> run[p].entries,
                    lastSeenVersion |-> run[p].lastSeenVersion,
                    roundVersions |-> RoundVersions(p),
                    failed |-> \E i \in 1..Len(run[p].rounds) :
                                    run[p].rounds[i].ret # "true",
                    puts |-> run[p].puts]
    /\ UNCHANGED <<doc, published, KV, env, call>>

StepRemembered(p) ==
    \/ FetchCheck(p)
    \/ FetchUsage(p)
    \/ Scheduled(p)
    \/ SettledRemembered(p)
    \/ FetchChangelog(p)
    \/ KVGet(p)
    \/ KVPut(p)
    \/ SendNotifications(p)
    \/ \E pl \in Platforms : SendSettles(p, pl)
    \/ PromiseAllResolves(p)
    \/ PromiseAllRejects(p)

NextRemembered ==
    \/ PublishVersion
    \/ RewriteDocument
    \/ \E p \in Serial : StepRemembered(p)

SpecRemembered == Init /\ [][NextRemembered]_vars

\* The checkpoint c names an entry of the list other than its first.
FoundBehindHead(list, c) ==
    /\ Len(list) >= 2
    /\ list[1].version # c
    /\ \E i \in 2..Len(list) : list[i].version = c

\* The versions in front of the first entry of version c, oldest first.
NewerVersionsOldestFirst(list, c) ==
    LET k == (CHOOSE i \in 1..Len(list) :
                    /\ list[i].version = c
                    /\ \A j \in 1..(i - 1) : list[j].version # c) - 1
    IN [i \in 1..k |-> list[k + 1 - i].version]

\* The remembered invocation read a checkpoint found behind the head of its
\* document and had a round that did not return success.
PreviousFailedRound ==
    /\ previous.known
    /\ previous.read
    /\ FoundBehindHead(previous.entries, previous.lastSeenVersion)
    /\ previous.failed

\* The invocation has fetched the document and read the checkpoint that the
\* remembered invocation had.
SameInputs(p) ==
    /\ run[p].read
    /\ run[p].entries = previous.entries
    /\ run[p].lastSeenVersion = previous.lastSeenVersion

\* The invocation dispatched one round per new entry, oldest first (a round
\* starts the send of every configured platform, see SendNotifications).
AttemptedEveryRound(p) ==
    RoundVersions(p)
        = NewerVersionsOldestFirst(previous.entries, previous.lastSeenVersion)

\* C14: an invocation whose checkpoint was found in the document at an
\* index k > 0 and that had a failed round wrote no checkpoint, and the next
\* invocation with the same document and checkpoint ends having attempted
\* one round for each of the k new entries, oldest first, to every
\* configured platform.
C14_RetryFromScratch ==
    \A p \in Procs :
        PreviousFailedRound =>
            /\ previous.puts = <<>>
            /\ (Ended(p) /\ SameInputs(p)) => AttemptedEveryRound(p)

\* The part of C14 the code keeps: the same for a next invocation that
\* returned, which no throwing send has cut short.
C14_RetryWhenReturned ==
    \A p \in Procs :
        PreviousFailedRound =>
            /\ previous.puts = <<>>
            /\ (run[p].pc = "returned" /\ SameInputs(p)) => AttemptedEveryRound(p)

\* A retry of two rounds after an invocation of two rounds, one of them
\* failed.
C14_RetryReached ==
    \E p \in Procs :
        /\ PreviousFailedRound
        /\ Len(previous.roundVersions) = 2
        /\ run[p].pc = "returned"
        /\ SameInputs(p)
        /\ Len(run[p].rounds) = 2

\* C15: in a round the send of every configured platform has been started
\* when the round awaits, the round is over only once every one of them has
\* settled, whatever their outcomes, and so no next round starts while a
\* send is in flight.
C15_FanOutFanIn ==
    \A p \in Procs :
        /\ run[p].pc = "awaiting" =>
            \A pl \in Platforms : run[p].promises[pl] # "none" <=> pl \in Configured(env)
        /\ run[p].pc # "awaiting" =>
            \A pl \in Platforms : run[p].promises[pl] # "pending"

\* The part of C15 the code keeps: every configured send is started before
\* the await, and an invocation that goes on after a round (to the next
\* round, to the checkpoint write or to its return) has no send in flight.
C15_NoRoundWhileInFlight ==
    \A p \in Procs :
        /\ run[p].pc = "awaiting" =>
            \A pl \in Platforms : run[p].promises[pl] # "none" <=> pl \in Configured(env)
        /\ run[p].pc \in {"notify", "kv_put", "returned"} =>
            run[p].promises = NoPromises

\* A second round is about to start after a first round of two sends.
C15_SecondRoundReached ==
    \E p \in Procs :
        /\ run[p].pc = "notify"
        /\ Len(run[p].rounds) = 1
        /\ run[p].rounds[1].successCount + run[p].rounds[1].failedCount >= 2

\* ------------------------------------------------ overlapping invocations
\* scheduled(event, env, ctx) while another invocation may be running:
\* nothing in the handler looks for one.
ScheduledOverlapping(p) ==
    /\ run[p].pc = "idle"
    /\ run' = [run EXCEPT ![p] = [Idle EXCEPT !.pc = "fetching", !.trigger = "scheduled",
                                               !.checkpointAtStart = KV]]
    /\ UNCHANGED <<doc, published, KV, env, previous, call>>

StepOverlapping(p) ==
    \/ ScheduledOverlapping(p)
    \/ Settled(p)
    \/ FetchChangelog(p)
    \/ KVGet(p)
    \/ KVPut(p)
    \/ SendNotifications(p)
    \/ \E pl \in Platforms : SendSettles(p, pl)
    \/ PromiseAllResolves(p)
    \/ PromiseAllRejects(p)

\* The baseline is stored, versions have been published since, and the
\* document stays as it is.
InitOverlap ==
    /\ published \in 1..MaxVer
    /\ doc = Document(published, 1)
    /\ KV = 1
    /\ env \in {e \in EnvValues : Cardinality(Configured(e)) <= MaxOverlapPlatforms}
    /\ run = [p \in Procs |-> Idle]
    /\ previous = NoPrevious
    /\ call = NoCall

NextOverlap == \E p \in Procs : StepOverlapping(p)

SpecOverlap == InitOverlap /\ [][NextOverlap]_vars

\* C16: nothing defends an invocation against another: an invocation that
\* read a checkpoint found behind the head of its document and returned has
\* dispatched a round for every version newer than the checkpoint it read,
\* oldest first, whatever another invocation delivered or wrote meanwhile.
C16_OwnDeltaDelivered ==
    \A p \in Procs :
        (/\ run[p].pc = "returned"
         /\ run[p].read
         /\ FoundBehindHead(run[p].entries, run[p].lastSeenVersion)) =>
            RoundVersions(p)
                = NewerVersionsOldestFirst(run[p].entries, run[p].lastSeenVersion)

\* C16 witness: two invocations read the same checkpoint before either
\* wrote (the write puts the head's version, which is not the checkpoint
\* they read), both dispatched a round for the same version, every send of
\* both succeeded, on one and the same platform, and both wrote.
C16_Witness ==
    \E p, q \in Procs :
        /\ p # q
        /\ run[p].pc = "returned"
        /\ run[q].pc = "returned"
        /\ run[p].read
        /\ run[q].read
        /\ run[p].lastSeenVersion = run[q].lastSeenVersion
        /\ run[p].lastSeenVersion # run[p].latestVersion
        /\ Cardinality(Configured(env)) = 1
        /\ run[p].rounds # <<>>
        /\ RoundVersions(p) = RoundVersions(q)
        /\ \A i \in 1..Len(run[p].rounds) :
            /\ run[p].rounds[i].successCount = 1
            /\ run[q].rounds[i].successCount = 1
        /\ run[p].puts # <<>>
        /\ run[q].puts # <<>>

\* C17: with no platform configured, an invocation that read a checkpoint
\* found behind the head of its document gets false from every round,
\* starts no send, writes nothing and leaves the checkpoint as it read it;
\* this holds for every invocation, however many came before.
C17_ZeroPlatformsNoAdvance ==
    \A p \in Procs :
        (/\ Configured(env) = {}
         /\ run[p].read
         /\ FoundBehindHead(run[p].entries, run[p].lastSeenVersion)) =>
            /\ \A i \in 1..Len(run[p].rounds) : run[p].rounds[i].ret = "false"
            /\ run[p].promises = NoPromises
            /\ run[p].puts = <<>>
            /\ run[p].pc \in {"notify", "returned"}
            /\ KV = run[p].lastSeenVersion
            /\ run[p].pc = "returned" =>
                RoundVersions(p)
                    = NewerVersionsOldestFirst(run[p].entries, run[p].lastSeenVersion)

\* C17 witness: with no platform configured an invocation of two failed
\* rounds has returned after an invocation that had failed on the same
\* checkpoint, which is still the one stored.
C17_Witness ==
    \E p \in Procs :
        /\ Configured(env) = {}
        /\ PreviousFailedRound
        /\ run[p].pc = "returned"
        /\ SameInputs(p)
        /\ Len(run[p].rounds) = 2
        /\ KV = previous.lastSeenVersion

\* C18: an invocation writes the checkpoint at most once, the value is the
\* version of the first entry of the document it fetched, and after the
\* write it has returned: no send is in flight and no round is left to
\* dispatch.
C18_OneWriteLast ==
    \A p \in Procs :
        /\ Len(run[p].puts) <= 1
        /\ run[p].puts # <<>> =>
            /\ run[p].fetched = "ok"
            /\ run[p].puts[1] = run[p].entries[1].version
            /\ run[p].pc = "returned"
            /\ run[p].promises = NoPromises
            /\ run[p].queue = <<>>

\* C18 witness: an invocation has written after two rounds, whose sends had
\* all settled before.
C18_Witness ==
    \E p \in Procs :
        /\ run[p].puts # <<>>
        /\ Len(run[p].rounds) = 2
        /\ run[p].rounds[2].successCount >= 1

\* The place of version v in document d counted from its oldest entry: the
\* number of headings from the heading of v down to the end of d.
IndexFromOldest(d, v) ==
    Cardinality({i \in HeadingLines(d) :
                    \E j \in HeadingLines(d) : d[j].version = v /\ j <= i})

\* Version v has a heading in document d.
InDocument(d, v) == \E i \in HeadingLines(d) : d[i].version = v

\* C20: with serial checks on a document that only grows at its head, a
\* stored checkpoint is always a version of the current document, no
\* invocation finds its checkpoint missing from the document it parsed (the
\* resynchronize branch is never taken), and no step moves the checkpoint
\* to an older place of the document or removes it.
C20_CheckpointStaysInDocument ==
    /\ [](/\ KV # Null => InDocument(doc, KV)
          /\ \A p \in Procs : ~Stale(p))
    /\ [][KV # Null =>
            /\ KV' # Null
            /\ IndexFromOldest(doc', KV') >= IndexFromOldest(doc', KV)]_vars

\* C20 witness: after a baseline an invocation found its checkpoint two
\* entries behind the head and moved it to the head.
C20_Witness ==
    \E p \in Procs :
        /\ run[p].read
        /\ run[p].lastSeenVersion # Null
        /\ Len(run[p].newVersions) = 2
        /\ run[p].puts # <<>>
        /\ IndexFromOldest(doc, KV) = IndexFromOldest(doc, run[p].lastSeenVersion) + 2

\* ----------------------------------------- checks on a settled document
\* The document has stopped changing; some checkpoint, or none, is stored.
InitLive ==
    /\ published \in 1..MaxVer
    /\ doc = Document(published, 1)
    /\ KV \in {Null} \cup 1..published
    /\ env \in EnvValues
    /\ run = [p \in Procs |-> Idle]
    /\ previous = NoPrevious
    /\ call = NoCall

StepLive(p) ==
    \/ FetchCheck(p)
    \/ Scheduled(p)
    \/ Settled(p)
    \/ FetchChangelog(p)
    \/ KVGet(p)
    \/ KVPut(p)
    \/ SendNotifications(p)
    \/ \E pl \in Platforms : SendSettles(p, pl)
    \/ PromiseAllResolves(p)
    \/ PromiseAllRejects(p)

NextLive == \E p \in Serial : StepLive(p)

\* The cron trigger keeps firing and every await of an invocation settles.
SpecLive == InitLive /\ [][NextLive]_vars /\ WF_vars(NextLive)

\* No fetch of the document fails and every round that has ended had a
\* platform that succeeded.
FetchAndSomePlatformSucceed ==
    \A p \in Procs :
        /\ run[p].fetched \in {"none", "ok"}
        /\ \A i \in 1..Len(run[p].rounds) : run[p].rounds[i].successCount >= 1

\* No send has thrown.
NoSendThrew ==
    \A p \in Procs : \A pl \in Platforms : run[p].promises[pl] # "threw"

\* The checkpoint is the newest version of the document and no invocation
\* dispatches a round or writes.
Quiescent ==
    /\ KV = published
    /\ InDocument(doc, KV)
    /\ \A p \in Procs :
        /\ run[p].rounds = <<>>
        /\ run[p].promises = NoPromises
        /\ run[p].puts = <<>>

\* C19: with serial checks on a document that has stopped changing, if from
\* some point on every fetch succeeds and at least one configured platform
\* succeeds in every round, then from some point on the checkpoint is the
\* document's newest version and no invocation dispatches a notification or
\* writes.
C19_ConvergesAndQuiesces ==
    <>[]FetchAndSomePlatformSucceed => <>[]Quiescent

\* The part of C19 the code keeps: the same when, besides, no send throws.
C19_ConvergesWithoutThrow ==
    <>[](FetchAndSomePlatformSucceed /\ NoSendThrew) => <>[]Quiescent

====
